---- MODULE Spec2Model ----
(***************************************************************************)
(* Model of the J5sExecutor adapter (screwdriver executor for Jenkins).    *)
(*                                                                         *)
(* The repository holds two revisions of the adapter class:                *)
(*   src/index.js          (get is queried with the bare job name, no      *)
(*                          SD_CONTAINER parameter, destroy commented out, *)
(*                          _stop resolves with 10)                        *)
(*   src/unnamed/part_000  (get is queried with {name}, SD_CONTAINER is    *)
(*                          passed, destroy follows stop)                  *)
(* The variable impl says which revision the executor was loaded from.     *)
(*                                                                         *)
(* Every invocation of _start / _stop is a promise chain.  One action of   *)
(* the model is one callback of that chain; the result the breaker (or     *)
(* fs.readFile) hands to the callback is an input of the action.           *)
(***************************************************************************)
EXTENDS Integers, Sequences, FiniteSets, TLC

VARIABLES
    impl,        \* revision of the adapter in use
    ecosystem,   \* this.ecosystem, set by the constructor
    op,          \* per invocation: "none", "start" or "stop"
    config,      \* per invocation: the config argument
    pc,          \* per invocation: the step of the promise chain that is outstanding
    reads,       \* per invocation: number of fs.readFile calls it has made
    readReply,   \* per invocation: (err, fileContents) fs.readFile called back with
    xml,         \* per invocation: the xml the chain of _start carries
    existsReply, \* per invocation: value job.exists resolved with
    getReply,    \* per invocation: value job.get resolved with
    failure,     \* per invocation: the runCommand that rejected, and its error
    calls,       \* per invocation: descriptors handed to breaker.runCommand, in order
    options,     \* per invocation: the descriptor object the breaker holds for the
                 \* outstanding runCommand (its params grow by _jenkinsCommand)
    dispatched,  \* per invocation: the client entry-point invocations made for the
                 \* outstanding runCommand, in order
    inflight,    \* per invocation: the template read and runCommand promises pending
    outcome      \* per invocation: state of the promise returned to the caller

vars == <<impl, ecosystem, op, config, pc, reads, readReply, xml, existsReply, getReply,
          failure, calls, options, dispatched, inflight, outcome>>

----------------------------------------------------------------------------
(* Bounds of the model *)

MaxBuildNumber == 2

\* times the breaker runs the wrapped function for one runCommand (retries)
MaxAttempts == 2

\* Two invocations in flight at once.  Invocations share no state of the
\* adapter (the breaker's policy is an input of each step), so a third one
\* adds interleavings of the same per-invocation behaviour only.
Invocations == {1, 2}
Impls == {"index.js", "part_000"}
Configs == {[buildId |-> 1993, container |-> "node:4", token |-> "abcdefg"],
            [buildId |-> 7, container |-> "node:6", token |-> "hijklmn"]}
Ecosystems == {[api |-> "api", ui |-> "ui", store |-> "store"]}
Templates == {"<project/>", "<project><builders/></project>"}

----------------------------------------------------------------------------
(* JavaScript values, as far as the adapter looks into them *)

Undefined == [type |-> "undefined"]
Null == [type |-> "null"]
Bool(b) == [type |-> "boolean", bool |-> b]
Num(n) == [type |-> "number", num |-> n]
Str(s) == [type |-> "string", str |-> s]
Obj(fields) == [type |-> "object", fields |-> fields]
NoFields == [k \in {} |-> Undefined]
NotYet == [type |-> "not received"]

\* ToBoolean of the language: what `if (v)`, `!v` and `a && b` test
Truthy(v) ==
    CASE v.type = "undefined" -> FALSE
      [] v.type = "null" -> FALSE
      [] v.type = "boolean" -> v.bool
      [] v.type = "number" -> v.num # 0
      [] v.type = "string" -> v.str # ""
      [] OTHER -> TRUE

\* a && b
And(a, b) == IF Truthy(a) THEN b ELSE a

\* v.k, read only behind a truthiness guard
Prop(v, k) == IF v.type = "object" /\ k \in DOMAIN v.fields THEN v.fields[k] ELSE Undefined

Error(message) == [type |-> "error", message |-> message]

Pending == [state |-> "pending"]
Resolved(v) == [state |-> "resolved", value |-> v]
Rejected(e) == [state |-> "rejected", error |-> e]

\* no promise was returned: the method threw e synchronously
Thrown(e) == [state |-> "thrown", error |-> e]

----------------------------------------------------------------------------
(* What the collaborators can answer *)

\* fs.readFile(configPath, 'utf-8', (err, fileContents) => ...)
ReadErrors == {Error("fs.readFile error")}

\* values a remote call that is not looked into resolves with
RemoteValues == {Null, Str("ok")}

\* job.exists answers
ExistsValues == {Bool(TRUE), Bool(FALSE)}

\* job.get answers: no data, no lastBuild, lastBuild null, lastBuild without a
\* number, number null, number 0..MaxBuildNumber
JobInfos ==
    {Undefined,
     Obj(NoFields),
     Obj([lastBuild |-> Null]),
     Obj([lastBuild |-> Obj(NoFields)]),
     Obj([lastBuild |-> Obj([number |-> Null])])}
    \cup {Obj([lastBuild |-> Obj([number |-> Num(n)])]) : n \in 0..MaxBuildNumber}

\* the breaker is open: runCommand fails fast, the wrapped function is not run
CircuitOpenError == Error("CircuitBreaker Open")

\* breaker.runCommand itself throws
ThrownError == Error("breaker.runCommand threw")

\* failures of a runCommand that the remote client has no part in
BreakerErrors == {CircuitOpenError, ThrownError}

\* the error a failing runCommand(descriptor) rejects with
RemoteError(descriptor) == Error(descriptor.module \o "." \o descriptor.action \o " error")

----------------------------------------------------------------------------
(* The adapter's pure parts *)

\* String(config.buildId)
String(n) == ToString(n)

\* mutant: the name counts the calls the adapter has made so far
_jobNameCounting(buildId) == "SD-" \o ToString(buildId + Len(calls[1]))

\* `SD-${buildId}`
_jobName(buildId) == "SD-" \o ToString(buildId)

existsOpts(jobName) ==
    [module |-> "job", action |-> "exists", params |-> <<[name |-> jobName]>>]

configOpts(jobName, contents) ==
    [module |-> "job", action |-> "config", params |-> <<[name |-> jobName, xml |-> contents]>>]

createOpts(jobName, contents) ==
    [module |-> "job", action |-> "create", params |-> <<[name |-> jobName, xml |-> contents]>>]

\* mutant: the job is updated whatever job.exists answered
createOrUpdateOptsAlwaysConfig(exists, jobName, contents) == configOpts(jobName, contents)

\* mutant: the job is created whatever job.exists answered
createOrUpdateOptsAlwaysCreate(exists, jobName, contents) == createOpts(jobName, contents)

\* the branch of _jenkinsJobCreateOrUpdate
createOrUpdateOpts(exists, jobName, contents) ==
    IF Truthy(exists) THEN configOpts(jobName, contents) ELSE createOpts(jobName, contents)

\* mutant: the API and store addresses are swapped
parametersIndexSwapped(cfg, eco) ==
    [SD_BUILDID |-> String(cfg.buildId),
     SD_TOKEN |-> cfg.token,
     SD_API |-> eco.store,
     SD_STORE |-> eco.api]

\* parameters of src/index.js
parametersIndex(cfg, eco) ==
    [SD_BUILDID |-> String(cfg.buildId),
     SD_TOKEN |-> cfg.token,
     SD_API |-> eco.api,
     SD_STORE |-> eco.store]

\* parameters of src/unnamed/part_000
parametersPart(cfg, eco) ==
    [SD_BUILDID |-> String(cfg.buildId),
     SD_TOKEN |-> cfg.token,
     SD_CONTAINER |-> cfg.container,
     SD_API |-> eco.api,
     SD_STORE |-> eco.store]

buildOpts(jobName, parameters) ==
    [module |-> "job", action |-> "build",
     params |-> <<[name |-> jobName, parameters |-> parameters]>>]

\* src/index.js passes the bare job name: params: [jobName]
getOptsIndex(jobName) ==
    [module |-> "job", action |-> "get", params |-> <<[string |-> jobName]>>]

\* src/unnamed/part_000: params: [{ name: jobName }]
getOptsPart(jobName) ==
    [module |-> "job", action |-> "get", params |-> <<[name |-> jobName]>>]

\* mutant: only data itself is tested
lastBuildNumberDataOnly(data) == data

\* data && data.lastBuild && data.lastBuild.number
lastBuildNumber(data) ==
    And(And(data, Prop(data, "lastBuild")), Prop(Prop(data, "lastBuild"), "number"))

stopOpts(jobName, data) ==
    [module |-> "build", action |-> "stop",
     params |-> <<[name |-> jobName, number |-> Prop(Prop(data, "lastBuild"), "number")]>>]

destroyOpts(jobName) ==
    [module |-> "job", action |-> "destroy", params |-> <<[name |-> jobName]>>]

NoBuildError == Error("No build has been started yet, try later")

----------------------------------------------------------------------------
(* State after construction: no invocation has been made *)

NoOptions == [module |-> "", action |-> "", params |-> <<>>]

Init ==
    /\ impl \in Impls
    /\ ecosystem \in Ecosystems
    /\ op = [i \in Invocations |-> "none"]
    /\ config = [i \in Invocations |-> [buildId |-> 0, container |-> "", token |-> ""]]
    /\ pc = [i \in Invocations |-> "idle"]
    /\ reads = [i \in Invocations |-> 0]
    /\ readReply = [i \in Invocations |-> NotYet]
    /\ xml = [i \in Invocations |-> ""]
    /\ existsReply = [i \in Invocations |-> NotYet]
    /\ getReply = [i \in Invocations |-> NotYet]
    /\ failure = [i \in Invocations |-> NotYet]
    /\ calls = [i \in Invocations |-> <<>>]
    /\ options = [i \in Invocations |-> NoOptions]
    /\ dispatched = [i \in Invocations |-> <<>>]
    /\ inflight = [i \in Invocations |-> {}]
    /\ outcome = [i \in Invocations |-> Pending]

Last(s) == s[Len(s)]

\* "module.action" of a descriptor
Name(descriptor) == descriptor.module \o "." \o descriptor.action

\* breaker.runCommand(descriptor): the breaker takes the descriptor object
runCommand(i, descriptor) ==
    /\ calls' = [calls EXCEPT ![i] = Append(@, descriptor)]
    /\ options' = [options EXCEPT ![i] = descriptor]
    /\ dispatched' = [dispatched EXCEPT ![i] = <<>>]

\* the callback of the step `done` runs and starts the steps `started`
await(i, done, started) ==
    inflight' = [inflight EXCEPT ![i] = (@ \ {done}) \cup started]

\* the remote client has answered the outstanding call of the invocation
answered(i) == dispatched[i] # <<>>

settle(i, result) ==
    /\ outcome' = [outcome EXCEPT ![i] = result]
    /\ pc' = [pc EXCEPT ![i] = "settled"]

RemotePcs == {"exists", "createOrUpdate", "build", "get", "stop", "destroy"}

----------------------------------------------------------------------------
(* The generic invoker the breaker wraps *)

\* _jenkinsCommand(options, callback): the callback is pushed onto
\* options.params and the client's entry point is applied to the params
_jenkinsCommand(i) ==
    /\ pc[i] \in RemotePcs
    /\ Len(dispatched[i]) < MaxAttempts
    /\ LET callback == [callback |-> Len(dispatched[i]) + 1]
           pushed == [options[i] EXCEPT !.params = Append(@, callback)]
       IN /\ options' = [options EXCEPT ![i] = pushed]
          /\ dispatched' = [dispatched EXCEPT ![i] =
                               Append(@, [module |-> pushed.module,
                                          action |-> pushed.action,
                                          args |-> pushed.params])]
    /\ UNCHANGED <<impl, ecosystem, op, config, pc, reads, readReply, xml, existsReply,
                  getReply, failure, calls, inflight, outcome>>

----------------------------------------------------------------------------
(* _start *)

\* _start(config): the job name is computed and fs.readFile is started
Start(i, cfg) ==
    /\ pc[i] = "idle"
    /\ op' = [op EXCEPT ![i] = "start"]
    /\ config' = [config EXCEPT ![i] = cfg]
    /\ reads' = [reads EXCEPT ![i] = @ + 1]
    /\ await(i, "", {"fs.readFile"})
    /\ pc' = [pc EXCEPT ![i] = "readFile"]
    /\ UNCHANGED <<impl, ecosystem, readReply, xml, existsReply, getReply, failure, calls,
                  options, dispatched, outcome>>

\* mutant: the readFile callback calls neither reject nor resolve when the
\* read succeeded
ReadFileCallbackNeverResolves(i, err, fileContents) ==
    /\ pc[i] = "readFile"
    /\ readReply' = [readReply EXCEPT ![i] = [err |-> err, fileContents |-> fileContents]]
    /\ await(i, "fs.readFile", {})
    /\ IF Truthy(err)
       THEN settle(i, Rejected(err))
       ELSE /\ pc' = [pc EXCEPT ![i] = "hung"]
            /\ UNCHANGED outcome
    /\ UNCHANGED <<impl, ecosystem, op, config, reads, xml, existsReply, getReply, failure,
                   calls, options, dispatched>>

\* mutant: the readFile callback ignores err and always resolves
ReadFileCallbackIgnoresErr(i, err, fileContents) ==
    /\ pc[i] = "readFile"
    /\ readReply' = [readReply EXCEPT ![i] = [err |-> err, fileContents |-> fileContents]]
    /\ xml' = [xml EXCEPT ![i] = fileContents]
    /\ runCommand(i, existsOpts(_jobName(config[i].buildId)))
    /\ await(i, "fs.readFile", {"job.exists"})
    /\ pc' = [pc EXCEPT ![i] = "exists"]
    /\ UNCHANGED <<impl, ecosystem, op, config, reads, existsReply, getReply, failure,
                  outcome>>

\* mutant: the template of the first read is kept for every later start
ReadFileCallbackCaches(i, err, fileContents) ==
    /\ pc[i] = "readFile"
    /\ readReply' = [readReply EXCEPT ![i] = [err |-> err, fileContents |-> fileContents]]
    /\ await(i, "fs.readFile", IF Truthy(err) THEN {} ELSE {"job.exists"})
    /\ IF Truthy(err)
       THEN /\ settle(i, Rejected(err))
            /\ UNCHANGED <<xml, calls, options, dispatched>>
       ELSE /\ xml' = [xml EXCEPT ![i] =
                          IF \E j \in Invocations : xml[j] # ""
                          THEN xml[CHOOSE j \in Invocations : xml[j] # ""]
                          ELSE fileContents]
            /\ runCommand(i, existsOpts(_jobName(config[i].buildId)))
            /\ pc' = [pc EXCEPT ![i] = "exists"]
            /\ UNCHANGED outcome
    /\ UNCHANGED <<impl, ecosystem, op, config, reads, existsReply, getReply, failure>>

\* the readFile callback: reject(err), or resolve(fileContents) and then
\* _jenkinsJobCreateOrUpdate(jobName, xml), which asks job.exists
ReadFileCallback(i, err, fileContents) ==
    /\ pc[i] = "readFile"
    /\ readReply' = [readReply EXCEPT ![i] = [err |-> err, fileContents |-> fileContents]]
    /\ await(i, "fs.readFile", IF Truthy(err) THEN {} ELSE {"job.exists"})
    /\ IF Truthy(err)
       THEN /\ settle(i, Rejected(err))
            /\ UNCHANGED <<xml, calls, options, dispatched>>
       ELSE /\ xml' = [xml EXCEPT ![i] = fileContents]
            /\ runCommand(i, existsOpts(_jobName(config[i].buildId)))
            /\ pc' = [pc EXCEPT ![i] = "exists"]
            /\ UNCHANGED outcome
    /\ UNCHANGED <<impl, ecosystem, op, config, reads, existsReply, getReply, failure>>

\* mutant: the handler does not return the promise of create / config, so
\* the next handler asks job.build at once
OnExistsNoReturn(i, exists) ==
    /\ pc[i] = "exists"
    /\ answered(i)
    /\ existsReply' = [existsReply EXCEPT ![i] = exists]
    /\ calls' = [calls EXCEPT ![i] =
                    @ \o <<createOrUpdateOpts(exists, _jobName(config[i].buildId), xml[i]),
                           buildOpts(_jobName(config[i].buildId),
                                     parametersIndex(config[i], ecosystem))>>]
    /\ options' = [options EXCEPT ![i] =
                      buildOpts(_jobName(config[i].buildId),
                                parametersIndex(config[i], ecosystem))]
    /\ dispatched' = [dispatched EXCEPT ![i] = <<>>]
    /\ await(i, "job.exists",
             {Name(createOrUpdateOpts(exists, _jobName(config[i].buildId), xml[i])),
              "job.build"})
    /\ pc' = [pc EXCEPT ![i] = "build"]
    /\ UNCHANGED <<impl, ecosystem, op, config, reads, readReply, xml, getReply, failure,
                  outcome>>

\* .then((exists) => ...) of _jenkinsJobCreateOrUpdate
OnExists(i, exists) ==
    /\ pc[i] = "exists"
    /\ answered(i)
    /\ existsReply' = [existsReply EXCEPT ![i] = exists]
    /\ runCommand(i, createOrUpdateOpts(exists, _jobName(config[i].buildId), xml[i]))
    /\ await(i, "job.exists",
             {Name(createOrUpdateOpts(exists, _jobName(config[i].buildId), xml[i]))})
    /\ pc' = [pc EXCEPT ![i] = "createOrUpdate"]
    /\ UNCHANGED <<impl, ecosystem, op, config, reads, readReply, xml, getReply, failure,
                  outcome>>

\* .then(() => ...) of _start: the parameters are built and job.build is asked
OnJobReady(i, value) ==
    /\ pc[i] = "createOrUpdate"
    /\ answered(i)
    /\ runCommand(i, buildOpts(_jobName(config[i].buildId),
                               IF impl = "index.js"
                               THEN parametersIndex(config[i], ecosystem)
                               ELSE parametersPart(config[i], ecosystem)))
    /\ await(i, Name(Last(calls[i])), {"job.build"})
    /\ pc' = [pc EXCEPT ![i] = "build"]
    /\ UNCHANGED <<impl, ecosystem, op, config, reads, readReply, xml, existsReply,
                  getReply, failure, outcome>>

\* job.build resolved: the promise of _start resolves with its value
OnBuildDone(i, value) ==
    /\ pc[i] = "build"
    /\ answered(i)
    /\ settle(i, Resolved(value))
    /\ await(i, "job.build", {})
    /\ UNCHANGED <<impl, ecosystem, op, config, reads, readReply, xml, existsReply,
                  getReply, failure, calls, options, dispatched>>

\* mutant: a rejected job.create / job.config is caught and the chain goes on
StartRejectedContinues(i, err) ==
    /\ pc[i] \in {"exists", "createOrUpdate", "build"}
    /\ failure' = [failure EXCEPT ![i] = [call |-> Last(calls[i]), error |-> err]]
    /\ IF pc[i] = "createOrUpdate"
       THEN /\ runCommand(i, buildOpts(_jobName(config[i].buildId),
                                       parametersIndex(config[i], ecosystem)))
            /\ await(i, Name(Last(calls[i])), {"job.build"})
            /\ pc' = [pc EXCEPT ![i] = "build"]
            /\ UNCHANGED outcome
       ELSE /\ settle(i, Rejected(err))
            /\ await(i, Name(Last(calls[i])), {})
            /\ UNCHANGED <<calls, options, dispatched>>
    /\ UNCHANGED <<impl, ecosystem, op, config, reads, readReply, xml, existsReply,
                  getReply>>

\* mutant: a rejected job.build is compensated by a job.destroy
StartRejectedDestroys(i, err) ==
    /\ pc[i] \in {"exists", "createOrUpdate", "build"}
    /\ failure' = [failure EXCEPT ![i] = [call |-> Last(calls[i]), error |-> err]]
    /\ settle(i, Rejected(err))
    /\ await(i, Name(Last(calls[i])), {})
    /\ IF pc[i] = "build"
       THEN runCommand(i, destroyOpts(_jobName(config[i].buildId)))
       ELSE UNCHANGED <<calls, options, dispatched>>
    /\ UNCHANGED <<impl, ecosystem, op, config, reads, readReply, xml, existsReply,
                  getReply>>

\* mutant: a job whose job.exists rejected is taken for absent and created
StartRejectedCreates(i, err) ==
    /\ pc[i] \in {"exists", "createOrUpdate", "build"}
    /\ failure' = [failure EXCEPT ![i] = [call |-> Last(calls[i]), error |-> err]]
    /\ IF pc[i] = "exists"
       THEN /\ runCommand(i, createOpts(_jobName(config[i].buildId), xml[i]))
            /\ await(i, "job.exists", {"job.create"})
            /\ pc' = [pc EXCEPT ![i] = "createOrUpdate"]
            /\ UNCHANGED outcome
       ELSE /\ settle(i, Rejected(err))
            /\ await(i, Name(Last(calls[i])), {})
            /\ UNCHANGED <<calls, options, dispatched>>
    /\ UNCHANGED <<impl, ecosystem, op, config, reads, readReply, xml, existsReply,
                  getReply>>

\* mutant: the error of an open breaker is replaced by one of the adapter
StartRejectedTranslatesOpen(i, err) ==
    /\ pc[i] \in {"exists", "createOrUpdate", "build"}
    /\ settle(i, Rejected(IF err = CircuitOpenError
                          THEN Error("Jenkins is not available")
                          ELSE err))
    /\ failure' = [failure EXCEPT ![i] = [call |-> Last(calls[i]), error |-> err]]
    /\ await(i, Name(Last(calls[i])), {})
    /\ UNCHANGED <<impl, ecosystem, op, config, reads, readReply, xml, existsReply,
                  getReply, calls, options, dispatched>>

\* a runCommand of _start rejected, or threw inside a handler of the chain:
\* no handler of the chain takes a rejection
StartRejected(i, err) ==
    /\ pc[i] \in {"exists", "createOrUpdate", "build"}
    /\ settle(i, Rejected(err))
    /\ failure' = [failure EXCEPT ![i] = [call |-> Last(calls[i]), error |-> err]]
    /\ await(i, Name(Last(calls[i])), {})
    /\ UNCHANGED <<impl, ecosystem, op, config, reads, readReply, xml, existsReply,
                  getReply, calls, options, dispatched>>

----------------------------------------------------------------------------
(* _stop *)

\* _stop(config): the job name is computed and job.get is asked
Stop(i, cfg) ==
    /\ pc[i] = "idle"
    /\ op' = [op EXCEPT ![i] = "stop"]
    /\ config' = [config EXCEPT ![i] = cfg]
    /\ runCommand(i, IF impl = "index.js"
                     THEN getOptsIndex(_jobName(cfg.buildId))
                     ELSE getOptsPart(_jobName(cfg.buildId)))
    /\ await(i, "", {"job.get"})
    /\ pc' = [pc EXCEPT ![i] = "get"]
    /\ UNCHANGED <<impl, ecosystem, reads, readReply, xml, existsReply, getReply, failure,
                  outcome>>

\* _stop(config) when breaker.runCommand throws instead of returning a
\* promise: the call is made outside any promise handler, the exception
\* leaves _stop
StopThrows(i, cfg, err) ==
    /\ pc[i] = "idle"
    /\ op' = [op EXCEPT ![i] = "stop"]
    /\ config' = [config EXCEPT ![i] = cfg]
    /\ runCommand(i, IF impl = "index.js"
                     THEN getOptsIndex(_jobName(cfg.buildId))
                     ELSE getOptsPart(_jobName(cfg.buildId)))
    /\ failure' = [failure EXCEPT ![i] =
                      [call |-> IF impl = "index.js"
                                THEN getOptsIndex(_jobName(cfg.buildId))
                                ELSE getOptsPart(_jobName(cfg.buildId)),
                       error |-> err]]
    /\ settle(i, Thrown(err))
    /\ UNCHANGED <<impl, ecosystem, reads, readReply, xml, existsReply, getReply, inflight>>

\* .then((data) => ...) of _stop
OnGet(i, data) ==
    /\ pc[i] = "get"
    /\ answered(i)
    /\ getReply' = [getReply EXCEPT ![i] = data]
    /\ await(i, "job.get", IF ~Truthy(lastBuildNumber(data)) THEN {} ELSE {"build.stop"})
    /\ IF ~Truthy(lastBuildNumber(data))
       THEN /\ settle(i, Rejected(NoBuildError))
            /\ UNCHANGED <<calls, options, dispatched>>
       ELSE /\ runCommand(i, stopOpts(_jobName(config[i].buildId), data))
            /\ pc' = [pc EXCEPT ![i] = "stop"]
            /\ UNCHANGED outcome
    /\ UNCHANGED <<impl, ecosystem, op, config, reads, readReply, xml, existsReply,
                  failure>>

\* src/index.js: .then(() => /* destroy commented out */ 10)
OnStopDoneIndex(i, value) ==
    /\ pc[i] = "stop"
    /\ impl = "index.js"
    /\ answered(i)
    /\ settle(i, Resolved(Num(10)))
    /\ await(i, "build.stop", {})
    /\ UNCHANGED <<impl, ecosystem, op, config, reads, readReply, xml, existsReply,
                  getReply, failure, calls, options, dispatched>>

\* mutant: the client is asked to destroy the job past the breaker
OnStopDonePartDirect(i, value) ==
    /\ pc[i] = "stop"
    /\ impl = "part_000"
    /\ answered(i)
    /\ dispatched' = [dispatched EXCEPT ![i] =
                         Append(@, [module |-> "job", action |-> "destroy",
                                    args |-> <<[name |-> _jobName(config[i].buildId)],
                                               [callback |-> 1]>>])]
    /\ await(i, "build.stop", {"job.destroy"})
    /\ pc' = [pc EXCEPT ![i] = "destroy"]
    /\ UNCHANGED <<impl, ecosystem, op, config, reads, readReply, xml, existsReply,
                  getReply, failure, calls, options, outcome>>

\* src/unnamed/part_000: .then(() => this.breaker.runCommand(destroy))
OnStopDonePart(i, value) ==
    /\ pc[i] = "stop"
    /\ impl = "part_000"
    /\ answered(i)
    /\ runCommand(i, destroyOpts(_jobName(config[i].buildId)))
    /\ await(i, "build.stop", {"job.destroy"})
    /\ pc' = [pc EXCEPT ![i] = "destroy"]
    /\ UNCHANGED <<impl, ecosystem, op, config, reads, readReply, xml, existsReply,
                  getReply, failure, outcome>>

\* job.destroy resolved: the promise of _stop resolves with its value
OnDestroyDone(i, value) ==
    /\ pc[i] = "destroy"
    /\ answered(i)
    /\ settle(i, Resolved(value))
    /\ await(i, "job.destroy", {})
    /\ UNCHANGED <<impl, ecosystem, op, config, reads, readReply, xml, existsReply,
                  getReply, failure, calls, options, dispatched>>

\* mutant: the rejection is wrapped in an error of the adapter
StopRejectedWraps(i, err) ==
    /\ pc[i] \in {"get", "stop", "destroy"}
    /\ settle(i, Rejected(Error("Failed to stop the build")))
    /\ failure' = [failure EXCEPT ![i] = [call |-> Last(calls[i]), error |-> err]]
    /\ await(i, Name(Last(calls[i])), {})
    /\ UNCHANGED <<impl, ecosystem, op, config, reads, readReply, xml, existsReply,
                  getReply, calls, options, dispatched>>

\* mutant: the job is destroyed also when build.stop rejected
StopRejectedDestroys(i, err) ==
    /\ pc[i] \in {"get", "stop", "destroy"}
    /\ failure' = [failure EXCEPT ![i] = [call |-> Last(calls[i]), error |-> err]]
    /\ settle(i, Rejected(err))
    /\ await(i, Name(Last(calls[i])), {})
    /\ IF pc[i] = "stop"
       THEN runCommand(i, destroyOpts(_jobName(config[i].buildId)))
       ELSE UNCHANGED <<calls, options, dispatched>>
    /\ UNCHANGED <<impl, ecosystem, op, config, reads, readReply, xml, existsReply,
                  getReply>>

\* mutant: a rejected job.destroy is tried once more
StopRejectedDestroysAgain(i, err) ==
    /\ pc[i] \in {"get", "stop", "destroy"}
    /\ failure' = [failure EXCEPT ![i] = [call |-> Last(calls[i]), error |-> err]]
    /\ settle(i, Rejected(err))
    /\ await(i, Name(Last(calls[i])), {})
    /\ IF pc[i] = "destroy"
       THEN runCommand(i, destroyOpts(_jobName(config[i].buildId)))
       ELSE UNCHANGED <<calls, options, dispatched>>
    /\ UNCHANGED <<impl, ecosystem, op, config, reads, readReply, xml, existsReply,
                  getReply>>

\* a runCommand of _stop rejected, or threw inside a handler of the chain:
\* no handler of the chain takes a rejection
StopRejected(i, err) ==
    /\ pc[i] \in {"get", "stop", "destroy"}
    /\ settle(i, Rejected(err))
    /\ failure' = [failure EXCEPT ![i] = [call |-> Last(calls[i]), error |-> err]]
    /\ await(i, Name(Last(calls[i])), {})
    /\ UNCHANGED <<impl, ecosystem, op, config, reads, readReply, xml, existsReply,
                  getReply, calls, options, dispatched>>

----------------------------------------------------------------------------

Next ==
    \E i \in Invocations :
        \/ \E cfg \in Configs : Start(i, cfg)
        \/ \E e \in ReadErrors : ReadFileCallback(i, e, "")
        \/ \E t \in Templates : ReadFileCallback(i, Null, t)
        \/ _jenkinsCommand(i)
        \/ \E v \in ExistsValues : OnExists(i, v)
        \/ \E v \in RemoteValues : OnJobReady(i, v)
        \/ \E v \in RemoteValues : OnBuildDone(i, v)
        \/ (answered(i) /\ StartRejected(i, RemoteError(Last(calls[i]))))
        \/ (~answered(i) /\ \E e \in BreakerErrors : StartRejected(i, e))
        \/ \E cfg \in Configs : Stop(i, cfg)
        \/ \E cfg \in Configs : StopThrows(i, cfg, ThrownError)
        \/ \E d \in JobInfos : OnGet(i, d)
        \/ \E v \in RemoteValues : OnStopDoneIndex(i, v)
        \/ \E v \in RemoteValues : OnStopDonePart(i, v)
        \/ \E v \in RemoteValues : OnDestroyDone(i, v)
        \/ (answered(i) /\ StopRejected(i, RemoteError(Last(calls[i]))))
        \/ (~answered(i) /\ \E e \in BreakerErrors : StopRejected(i, e))

Spec == Init /\ [][Next]_vars

\* the template read or the runCommand that invocation i waits for completes:
\* its callback or the handler attached to its promise runs
Completes(i) == Next /\ pc[i] \notin {"idle", "settled"} /\ pc'[i] # pc[i]

\* every read and every runCommand that was started completes in the end
FairSpec == Spec /\ \A i \in Invocations : WF_vars(Completes(i))

----------------------------------------------------------------------------
(* Vocabulary of the properties *)

\* "module.action" of every descriptor an invocation has issued, in order
CallNames(i) == [k \in 1..Len(calls[i]) |-> calls[i][k].module \o "." \o calls[i][k].action]

IsPrefix(s, t) == Len(s) <= Len(t) /\ \A k \in 1..Len(s) : s[k] = t[k]

Issued(i, name) == \E k \in 1..Len(calls[i]) : CallNames(i)[k] = name

\* the call of the invocation that rejected was name
Failed(i, name) ==
    /\ failure[i] # NotYet
    /\ failure[i].call.module \o "." \o failure[i].call.action = name

ReadSucceeded(i) == readReply[i] # NotYet /\ ~Truthy(readReply[i].err)

ReadFailed(i) == readReply[i] # NotYet /\ Truthy(readReply[i].err)

----------------------------------------------------------------------------
(* C1: a start whose template read succeeds and whose job.exists reports   *)
(* the job absent issues job.exists, then job.create (never job.config),   *)
(* then job.build, once each and in that order: at every moment the calls  *)
(* issued are a prefix of exists, create, build, create is issued as soon  *)
(* as the answer is known, and a start that resolved has issued all three. *)
C1_StartCreatesAbsentJob ==
    \A i \in Invocations :
        (op[i] = "start" /\ ReadSucceeded(i)
            /\ existsReply[i] # NotYet /\ ~Truthy(existsReply[i]))
        => /\ IsPrefix(CallNames(i), <<"job.exists", "job.create", "job.build">>)
           /\ Len(calls[i]) >= 2
           /\ ~Issued(i, "job.config")
           /\ (outcome[i].state = "resolved"
                  => CallNames(i) = <<"job.exists", "job.create", "job.build">>)

C1_Witness ==
    \E i \in Invocations :
        /\ op[i] = "start" /\ ReadSucceeded(i)
        /\ existsReply[i] = Bool(FALSE)
        /\ outcome[i].state = "resolved"
        /\ Len(calls[i]) = 3

(* C2: a start whose template read succeeds and whose job.exists reports   *)
(* the job present issues job.exists, then job.config (never job.create),  *)
(* then job.build, once each and in that order.                            *)
C2_StartUpdatesExistingJob ==
    \A i \in Invocations :
        (op[i] = "start" /\ ReadSucceeded(i)
            /\ existsReply[i] # NotYet /\ Truthy(existsReply[i]))
        => /\ IsPrefix(CallNames(i), <<"job.exists", "job.config", "job.build">>)
           /\ Len(calls[i]) >= 2
           /\ ~Issued(i, "job.create")
           /\ (outcome[i].state = "resolved"
                  => CallNames(i) = <<"job.exists", "job.config", "job.build">>)

C2_Witness ==
    \E i \in Invocations :
        /\ op[i] = "start" /\ ReadSucceeded(i)
        /\ existsReply[i] = Bool(TRUE)
        /\ outcome[i].state = "resolved"
        /\ Len(calls[i]) = 3

\* the job state carries a last-build record with a build number (Jenkins
\* numbers builds from 1)
RecordedBuild(data) ==
    /\ data.type = "object"
    /\ "lastBuild" \in DOMAIN data.fields
    /\ data.fields.lastBuild.type = "object"
    /\ "number" \in DOMAIN data.fields.lastBuild.fields
    /\ data.fields.lastBuild.fields.number.type = "number"
    /\ data.fields.lastBuild.fields.number.num >= 1

\* the job state has no last-build record: lastBuild is missing or null
NoLastBuild(data) ==
    \/ data.type # "object"
    \/ "lastBuild" \notin DOMAIN data.fields
    \/ data.fields.lastBuild.type \in {"undefined", "null"}

(* C3: a stop whose job.get returns a recorded last-build number n and     *)
(* whose remote calls all succeed issues job.get, then build.stop with the *)
(* number n, then job.destroy, in that order, and resolves with the value  *)
(* the remote call resolved with (null for null), none of its own.         *)
C3_StopThenDestroy ==
    \A i \in Invocations :
        (op[i] = "stop" /\ getReply[i] # NotYet /\ RecordedBuild(getReply[i])
            /\ failure[i] = NotYet)
        => /\ IsPrefix(CallNames(i), <<"job.get", "build.stop", "job.destroy">>)
           /\ Len(calls[i]) >= 2
           /\ calls[i][2].params[1].number = getReply[i].fields.lastBuild.fields.number
           /\ (pc[i] = "settled"
                  => /\ CallNames(i) = <<"job.get", "build.stop", "job.destroy">>
                     /\ outcome[i].state = "resolved"
                     /\ outcome[i].value \in RemoteValues)

(* C4: a stop whose job.get succeeds with a state without last-build       *)
(* record (lastBuild missing or null) issues job.get alone, never          *)
(* build.stop or job.destroy, and fails with the message                   *)
(* "No build has been started yet, try later".                             *)
C4_StopWithoutBuildFails ==
    \A i \in Invocations :
        (op[i] = "stop" /\ getReply[i] # NotYet /\ NoLastBuild(getReply[i]))
        => /\ CallNames(i) = <<"job.get">>
           /\ outcome[i].state = "rejected"
           /\ outcome[i].error.message = "No build has been started yet, try later"

C4_Witness ==
    \E i \in Invocations :
        /\ op[i] = "stop"
        /\ getReply[i] = Obj([lastBuild |-> Null])
        /\ pc[i] = "settled"

(* C5: a start whose template read fails never invokes job.exists,         *)
(* job.create, job.config or job.build, and fails with the read error.     *)
C5_ReadFailureStopsStart ==
    \A i \in Invocations :
        (op[i] = "start" /\ ReadFailed(i))
        => /\ calls[i] = <<>>
           /\ outcome[i] = Rejected(readReply[i].err)

C5_Witness ==
    \E i \in Invocations :
        /\ op[i] = "start"
        /\ ReadFailed(i)
        /\ readReply[i].err = Error("fs.readFile error")
        /\ pc[i] = "settled"

(* C6: when the job.create call (job absent) or the job.config call (job   *)
(* present) of a start fails, job.build is never invoked by that start and *)
(* the start fails with the error of that call.                            *)
C6_CreateOrConfigFailureStopsStart ==
    \A i \in Invocations :
        (op[i] = "start" /\ (Failed(i, "job.create") \/ Failed(i, "job.config")))
        => /\ ~Issued(i, "job.build")
           /\ outcome[i] = Rejected(failure[i].error)

C6_Witness ==
    \E i, j \in Invocations :
        /\ op[i] = "start" /\ Failed(i, "job.create") /\ pc[i] = "settled"
        /\ failure[i].error.message = "job.create error"
        /\ op[j] = "start" /\ Failed(j, "job.config") /\ pc[j] = "settled"

(* C7: when the job.build call of a start fails, the start fails with the  *)
(* error of that call and job.build stays the last call it issued: there   *)
(* is no compensating job.destroy nor any other remote call afterwards.    *)
C7_BuildFailureLeavesJob ==
    \A i \in Invocations :
        (op[i] = "start" /\ Failed(i, "job.build"))
        => /\ outcome[i] = Rejected(failure[i].error)
           /\ Len(calls[i]) = 3
           /\ Last(calls[i]) = failure[i].call
           /\ ~Issued(i, "job.destroy")

C7_Witness ==
    \E i \in Invocations :
        /\ op[i] = "start" /\ Failed(i, "job.build") /\ pc[i] = "settled"
        /\ failure[i].error.message = "job.build error"

(* C8: when the job.get call of a stop fails, the stop fails with the      *)
(* error of that call and neither build.stop nor job.destroy is invoked.   *)
(* (Whether the error comes as a rejection or as an exception is C19's.)   *)
C8_GetFailureStopsStop ==
    \A i \in Invocations :
        (op[i] = "stop" /\ Failed(i, "job.get"))
        => /\ outcome[i].state \in {"rejected", "thrown"}
           /\ outcome[i].error = failure[i].error
           /\ ~Issued(i, "build.stop")
           /\ ~Issued(i, "job.destroy")

C8_Witness ==
    \E i \in Invocations :
        /\ op[i] = "stop" /\ Failed(i, "job.get") /\ pc[i] = "settled"
        /\ failure[i].error.message = "job.get error"

(* C9: when build.stop fails after a successful job.get, the stop fails    *)
(* with the error of that call and job.destroy is never invoked.           *)
C9_StopFailureSkipsDestroy ==
    \A i \in Invocations :
        (op[i] = "stop" /\ getReply[i] # NotYet /\ Failed(i, "build.stop"))
        => /\ outcome[i] = Rejected(failure[i].error)
           /\ ~Issued(i, "job.destroy")

C9_Witness ==
    \E i \in Invocations :
        /\ op[i] = "stop" /\ getReply[i] # NotYet /\ Failed(i, "build.stop")
        /\ impl = "part_000"
        /\ pc[i] = "settled"
        /\ failure[i].error.message = "build.stop error"

\* the four parameters of the claim
FourParameters(cfg, eco) ==
    [SD_BUILDID |-> ToString(cfg.buildId),
     SD_TOKEN |-> cfg.token,
     SD_API |-> eco.api,
     SD_STORE |-> eco.store]

\* the four parameters and the container
FiveParameters(cfg, eco) ==
    [SD_BUILDID |-> ToString(cfg.buildId),
     SD_TOKEN |-> cfg.token,
     SD_CONTAINER |-> cfg.container,
     SD_API |-> eco.api,
     SD_STORE |-> eco.store]

BuildDescriptor(cfg, parameters) ==
    [module |-> "job", action |-> "build",
     params |-> <<[name |-> "SD-" \o ToString(cfg.buildId), parameters |-> parameters]>>]

----------------------------------------------------------------------------
(* C11: the parameters a start passes to job.build contain the container   *)
(* image of the caller, config.container, next to the build id, the token, *)
(* the API address and the store address.                                  *)
C11_ParametersContainContainer ==
    \A i \in Invocations :
        \A k \in 1..Len(calls[i]) :
            calls[i][k].action = "build"
            => /\ DOMAIN calls[i][k].params[1].parameters =
                    {"SD_BUILDID", "SD_TOKEN", "SD_CONTAINER", "SD_API", "SD_STORE"}
               /\ calls[i][k].params[1].parameters.SD_CONTAINER = config[i].container

----------------------------------------------------------------------------
\* the job name a descriptor carries: params[0].name, or params[0] itself
\* where the bare name is passed
JobNameOf(descriptor) ==
    IF "name" \in DOMAIN descriptor.params[1]
    THEN descriptor.params[1].name
    ELSE descriptor.params[1].string

\* "SD-" followed by the decimal digits of b, for the build ids of Configs
ExpectedJobName(b) ==
    CASE b = 1993 -> "SD-1993"
      [] b = 7 -> "SD-7"

(* C12: for every build id b the computed job name is "SD-" followed by    *)
(* the stringified b and depends on b only: whatever starts and stops the  *)
(* adapter has run before or runs meanwhile, every descriptor of an        *)
(* invocation for b carries that name, and so does a name computed now.    *)
C12_JobNameIsPure ==
    /\ \A cfg \in Configs : _jobName(cfg.buildId) = ExpectedJobName(cfg.buildId)
    /\ \A i \in Invocations :
           \A k \in 1..Len(calls[i]) :
               JobNameOf(calls[i][k]) = ExpectedJobName(config[i].buildId)

\* a start and a stop have run for the same build id, the name was
\* computed again after calls of the other invocation
C12_Witness ==
    \E i, j \in Invocations :
        /\ i # j
        /\ config[i].buildId = 1993 /\ config[j].buildId = 1993
        /\ op[i] = "start" /\ op[j] = "stop"
        /\ pc[i] = "settled" /\ Len(calls[i]) = 3
        /\ Len(calls[j]) >= 2
        /\ JobNameOf(calls[j][2]) = "SD-1993"

----------------------------------------------------------------------------
(* C13: every descriptor a start or a stop for build id b hands to the     *)
(* breaker has a params list of exactly one element, an object whose name  *)
(* field is the job name "SD-" + b; the job.get of a stop is               *)
(* {module: 'job', action: 'get', params: [{name: jobName}]}.              *)
C13_ParamsNameTheJob ==
    \A i \in Invocations :
        \A k \in 1..Len(calls[i]) :
            /\ Len(calls[i][k].params) = 1
            /\ "name" \in DOMAIN calls[i][k].params[1]
            /\ calls[i][k].params[1].name = "SD-" \o ToString(config[i].buildId)
            /\ (calls[i][k].action = "get"
                   => calls[i][k] =
                        [module |-> "job", action |-> "get",
                         params |-> <<[name |-> "SD-" \o ToString(config[i].buildId)]>>])

----------------------------------------------------------------------------
(* C14: within one start or stop no step is started before the result or   *)
(* the error of its predecessor is known: at every moment an invocation    *)
(* has at most one template read or runCommand outstanding, none once it   *)
(* has settled, also while another invocation is in flight.                *)
C14_OneStepOutstanding ==
    \A i \in Invocations :
        /\ Cardinality(inflight[i]) <= 1
        /\ (pc[i] \in {"idle", "settled"} => inflight[i] = {})
        /\ (pc[i] \in RemotePcs => inflight[i] = {Name(Last(calls[i]))})

\* two invocations in flight at once, each past its first step
C14_Witness ==
    \E i, j \in Invocations :
        /\ i # j
        /\ op[i] = "start" /\ inflight[i] = {"job.build"}
        /\ op[j] = "stop" /\ inflight[j] = {"build.stop"}

----------------------------------------------------------------------------
(* C15: every remote call of a start or a stop goes through the breaker:   *)
(* an entry point of the client is invoked by the generic invoker only,    *)
(* for the descriptor the operation last handed to breaker.runCommand,     *)
(* with that descriptor's module, action and params.                       *)
C15_CallsGoThroughBreaker ==
    \A i \in Invocations :
        \A k \in 1..Len(dispatched[i]) :
            /\ calls[i] # <<>>
            /\ dispatched[i][k].module = Last(calls[i]).module
            /\ dispatched[i][k].action = Last(calls[i]).action
            /\ Len(dispatched[i][k].args) > Len(Last(calls[i]).params)
            /\ SubSeq(dispatched[i][k].args, 1, Len(Last(calls[i]).params))
                   = Last(calls[i]).params

\* the client was asked to destroy the job, and to build one, by the invoker
C15_Witness ==
    \E i, j \in Invocations :
        /\ op[i] = "stop" /\ pc[i] = "destroy" /\ dispatched[i] # <<>>
        /\ dispatched[i][1].action = "destroy"
        /\ op[j] = "start" /\ pc[j] = "build" /\ Len(dispatched[j]) = 2

----------------------------------------------------------------------------
\* the breaker failed the outstanding call of the invocation fast
FailedFast(i) == failure[i] # NotYet /\ failure[i].error = CircuitOpenError

(* C16: when the breaker is open and fails a call fast, the call does not  *)
(* reach the remote server, the operation fails with the breaker's error   *)
(* unchanged, as it does for an error of the remote call, and no later     *)
(* step of the operation is issued.                                        *)
C16_OpenBreakerFailsOperation ==
    \A i \in Invocations :
        FailedFast(i)
        => /\ dispatched[i] = <<>>
           /\ outcome[i] = Rejected(CircuitOpenError)
           /\ Last(calls[i]) = failure[i].call
           /\ inflight[i] = {}

\* a start failed fast at job.create after job.exists was answered, a stop
\* failed fast at build.stop after job.get was answered
C16_Witness ==
    \E i, j \in Invocations :
        /\ op[i] = "start" /\ FailedFast(i) /\ CallNames(i) = <<"job.exists", "job.create">>
        /\ op[j] = "stop" /\ FailedFast(j) /\ CallNames(j) = <<"job.get", "build.stop">>

----------------------------------------------------------------------------
(* C17: when the job.exists call of a start fails, the start fails with    *)
(* the error of that call and none of job.create, job.config, job.build    *)
(* is invoked by that start.                                               *)
C17_ExistsFailureStopsStart ==
    \A i \in Invocations :
        (op[i] = "start" /\ Failed(i, "job.exists"))
        => /\ outcome[i] = Rejected(failure[i].error)
           /\ ~Issued(i, "job.create")
           /\ ~Issued(i, "job.config")
           /\ ~Issued(i, "job.build")

C17_Witness ==
    \E i \in Invocations :
        /\ op[i] = "start" /\ Failed(i, "job.exists") /\ pc[i] = "settled"
        /\ failure[i].error.message = "job.exists error"
        /\ existsReply[i] = NotYet

(* C18: when job.destroy fails after job.get and build.stop succeeded, the *)
(* stop fails with the error of that call and no further remote call is    *)
(* issued.                                                                 *)
C18_DestroyFailureFailsStop ==
    \A i \in Invocations :
        (op[i] = "stop" /\ Failed(i, "job.destroy"))
        => /\ outcome[i] = Rejected(failure[i].error)
           /\ CallNames(i) = <<"job.get", "build.stop", "job.destroy">>
           /\ inflight[i] = {}

C18_Witness ==
    \E i \in Invocations :
        /\ op[i] = "stop" /\ Failed(i, "job.destroy") /\ pc[i] = "settled"
        /\ getReply[i] # NotYet
        /\ failure[i].error.message = "job.destroy error"

----------------------------------------------------------------------------
(* C19: a start and a stop surface every error as a rejected outcome and   *)
(* never as an exception thrown to the caller, also when the first         *)
(* breaker call of the operation fails synchronously.                      *)
C19_ErrorsAreRejections ==
    \A i \in Invocations :
        /\ outcome[i].state # "thrown"
        /\ (failure[i] # NotYet => outcome[i] = Rejected(failure[i].error))
        /\ (ReadFailed(i) => outcome[i] = Rejected(readReply[i].err))

----------------------------------------------------------------------------
(* C20: every start reads the job template exactly once, before any remote *)
(* call of that start, and the xml of its job.create / job.config          *)
(* descriptor is the contents its own read returned, unchanged: nothing is *)
(* carried over from another invocation.                                   *)
C20_TemplateReadFresh ==
    \A i \in Invocations :
        op[i] = "start"
        => /\ reads[i] = 1
           /\ (calls[i] # <<>> => ReadSucceeded(i))
           /\ \A k \in 1..Len(calls[i]) :
                  calls[i][k].action \in {"create", "config"}
                  => calls[i][k].params[1].xml = readReply[i].fileContents

\* two starts whose reads returned different contents have both passed on
\* their own
C20_Witness ==
    \E i, j \in Invocations :
        /\ op[i] = "start" /\ op[j] = "start"
        /\ Issued(i, "job.create") /\ Issued(j, "job.config")
        /\ pc[i] = "settled" /\ ReadSucceeded(j)
        /\ readReply[i].fileContents # readReply[j].fileContents
        /\ calls[j][2].params[1].xml = readReply[j].fileContents

----------------------------------------------------------------------------
\* the job state carries a last-build number, whatever its value
CarriesBuildNumber(data) ==
    /\ data.type = "object"
    /\ "lastBuild" \in DOMAIN data.fields
    /\ data.fields.lastBuild.type = "object"
    /\ "number" \in DOMAIN data.fields.lastBuild.fields
    /\ data.fields.lastBuild.fields.number.type = "number"

(* C21: for every job state a successful job.get returns, the stop fails   *)
(* with the error "No build has been started yet, try later" if and only   *)
(* if the state has no last-build record or its build number is absent or  *)
(* null; for every state that carries a last-build number, whatever its    *)
(* value, build.stop is issued with that number.                           *)
C21_DomainErrorIffNoBuild ==
    \A i \in Invocations :
        (op[i] = "stop" /\ getReply[i] # NotYet)
        => /\ (outcome[i] = Rejected(Error("No build has been started yet, try later")))
                  <=> ~CarriesBuildNumber(getReply[i])
           /\ (CarriesBuildNumber(getReply[i])
                  => /\ Len(calls[i]) >= 2
                     /\ calls[i][2].module = "build" /\ calls[i][2].action = "stop"
                     /\ calls[i][2].params[1].number
                            = getReply[i].fields.lastBuild.fields.number)

----------------------------------------------------------------------------
(* C22: each time the generic invoker is called with a descriptor and a    *)
(* completion callback, also when the breaker calls it again with the same *)
(* descriptor object, the entry point of the client is invoked with the    *)
(* descriptor's original parameters followed by exactly one completion     *)
(* callback, the one given to that call, as the last argument.             *)
C22_OneCallbackLast ==
    \A i \in Invocations :
        \A k \in 1..Len(dispatched[i]) :
            dispatched[i][k].args = Append(Last(calls[i]).params, [callback |-> k])

----------------------------------------------------------------------------
\* the promise of the invocation has resolved or rejected
Settled(i) == outcome[i].state \in {"resolved", "rejected"}

(* C23: every start and every stop settles in the end, provided its        *)
(* template read and every runCommand it makes complete, and settles once: *)
(* a settled invocation keeps its outcome and makes no further remote      *)
(* call.  (A runCommand that throws instead of returning a promise does    *)
(* not complete in this sense; what becomes of it is C19's.)               *)
C23_SettlesExactlyOnce ==
    /\ \A i \in Invocations :
           (op[i] # "none" /\ outcome[i].state # "thrown") ~> Settled(i)
    /\ [][\A i \in Invocations :
              Settled(i) => /\ outcome'[i] = outcome[i]
                            /\ calls'[i] = calls[i]
                            /\ dispatched'[i] = dispatched[i]
                            /\ inflight'[i] = {}]_vars

\* a start resolved after its three calls and a stop was rejected after two
C23_Witness ==
    \E i, j \in Invocations :
        /\ op[i] = "start" /\ outcome[i].state = "resolved" /\ Len(calls[i]) = 3
        /\ op[j] = "stop" /\ outcome[j].state = "rejected" /\ Len(calls[j]) = 2
        /\ inflight[i] = {} /\ inflight[j] = {}

====
